---- MODULE Spec2Model ----
(***************************************************************************)
(* A model of the zohar event emitter (src/src/eventEmitter.ts):            *)
(* createEventEmitter with its subscribe / emit / unsubscribeAll closures   *)
(* over one shared eventsStore, and the once / awaited combinators.         *)
(*                                                                         *)
(* Execution is single threaded.  Listener bodies are user code: while a   *)
(* listener is running (the top frame of the stack is in "body") it may     *)
(* call subscribe, an unsubscribe handle, unsubscribeAll or emit again      *)
(* (re-entrancy), then return or throw.                                     *)
(*                                                                         *)
(* A second createEventEmitter call yields a second emitter (peer).  Its   *)
(* listeners are plain functions that make no calls, so an emit on it runs *)
(* to its end in one step.                                                  *)
(***************************************************************************)
EXTENDS Integers, Sequences, FiniteSets, TLC

\* ---------------------------------------------------------------- bounds
\* Calls user code makes on one emitter (subscribe, once, awaited, a handle,
\* unsubscribeAll, emit), at top level or from inside listeners.
MaxOps == 4

\* The event names of the emitter; the empty string is a legal key of an
\* EventDescription (EventType extends string).
Events == {"", "userLogin"}
Data == {1, 2}
Listeners == {1}
\* predicate 0: no predicate was passed; predicate 1: data => data === 1
Predicates == {0, 1}
\* Identities of subscribe calls (one more than MaxOps: see SpecDeep).
Sids == 1..(MaxOps + 1)

VARIABLES
    eventsStore,  \* the closure variable: [defined, map: eventName -> slot or 0]
    heap,         \* the ListenersMapEntry objects, by identity
    subs,         \* one record per subscribe call: what its closures captured
    stack,        \* the emit calls in progress, innermost last
    handleLog,    \* per subscribe call: the results of the calls of its handle
    invoked,      \* per subscribe call: how often the user's listener ran
    promise,      \* per awaited call: 0 while pending, else the resolved payload
    lastCall,     \* the call user code made last: [op, arg (event name, if given), num]
    seen,         \* per subscribe call: payload of the first emit of its event made
                  \* after it (0: none yet)
    swept,        \* the subscribe calls whose entry an unsubscribeAll removed
    ops,          \* calls user code has made so far
    budget,       \* calls user code makes at most in this run
    peer          \* the emitter of a second createEventEmitter call: its own
                  \* eventsStore and objects, its subscribe calls, how often each
                  \* of its listeners ran, the calls made on it

vars == <<eventsStore, heap, subs, stack, handleLog, invoked, promise, lastCall, seen, swept, ops, budget, peer>>

\* ------------------------------------------------------- Map<number, entry>
\* A JavaScript Map: a sequence of [key, value] in insertion order.
MapHas(m, k) == \E i \in 1..Len(m) : m[i].key = k

MapSet(m, k, v) ==
    IF MapHas(m, k)
    THEN [i \in 1..Len(m) |-> IF m[i].key = k THEN [key |-> k, value |-> v] ELSE m[i]]
    ELSE Append(m, [key |-> k, value |-> v])

MapDelete(m, k) == SelectSeq(m, LAMBDA x : x.key # k)

MapSize(m) == Len(m)

MapValues(m) == IF Len(m) = 0 THEN <<>> ELSE [i \in 1..Len(m) |-> m[i].value]

\* Map.prototype.forEach: entries are visited in insertion order; an entry
\* deleted before it is reached is not visited, an entry added during the
\* iteration is.  pos is the key last visited (-1 before the first); keys are
\* only ever inserted in increasing order, so the next entry is the first one
\* with a larger key.
ForEachRest(m, pos) == SelectSeq(m, LAMBDA x : x.key > pos)

ForEachHasNext(m, pos) == Len(ForEachRest(m, pos)) > 0

\* Variant: the iteration takes the entries from the far end.
ForEachNext_fromEnd(m, pos) == ForEachRest(m, pos)[Len(ForEachRest(m, pos))]

ForEachNext(m, pos) == Head(ForEachRest(m, pos))

\* ------------------------------------------------------------ EventsMap
NoSlot == 0

EmptyEventsMap == [e \in Events |-> NoSlot]

EventsMapHas(map, key) == map[key] # NoSlot

EventsMapGet(map, key) == map[key]

EventsMapSet(map, key, slot) == [map EXCEPT ![key] = slot]

EventsMapDelete(map, key) == [map EXCEPT ![key] = NoSlot]

EventsMapClear(map) == EmptyEventsMap

EventsMapSize(map) == Cardinality({e \in Events : map[e] # NoSlot})

Undefined == [defined |-> FALSE, map |-> EmptyEventsMap]

\* A ListenersMapEntry as resolveEventListeners creates it.
NewListenersMapEntry == [currentIndex |-> 0, listeners |-> <<>>]

\* What a createEventEmitter call starts from: eventsStore undefined, no
\* object allocated, nothing subscribed, nothing called.
NewEmitter ==
    [eventsStore |-> Undefined,
     heap |-> [s \in Sids |-> NewListenersMapEntry],
     subs |-> <<>>,
     invoked |-> [s \in Sids |-> 0],
     calls |-> 0]

\* ------------------------------------------------------------ helpers
Top == stack[Len(stack)]

\* User code is running: at top level, or inside a listener body.
UserCode == ops < budget /\ (IF Len(stack) = 0 THEN TRUE ELSE Top.pc = "body")

\* Slots no reference reaches are garbage: the store and the running forEach
\* calls hold the only references.
Collect(hp, store, stk) ==
    LET live == {store.map[e] : e \in Events} \cup {stk[i].slot : i \in 1..Len(stk)}
    IN [s \in Sids |-> IF s \in live THEN hp[s] ELSE NewListenersMapEntry]

\* History: the frames during which the registry was changed by user code
\* (mutated), and those during which it was changed by something else than a
\* call of a handle made by a listener (others).
Mark(stk, changed, byHandle) ==
    IF changed /\ Len(stk) > 0
    THEN [i \in 1..Len(stk) |->
            [stk[i] EXCEPT !.mutated = TRUE, !.others = @ \/ ~byHandle]]
    ELSE stk

MarkBelow(stk, changed) ==
    IF changed /\ Len(stk) > 0
    THEN [i \in 1..Len(stk) |->
            IF i < Len(stk)
            THEN [stk[i] EXCEPT !.mutated = TRUE, !.others = TRUE]
            ELSE stk[i]]
    ELSE stk

\* The listener entries registered for an event, in order (empty when none).
Registered(store, hp, e) ==
    IF store.defined /\ EventsMapHas(store.map, e)
    THEN MapValues(hp[EventsMapGet(store.map, e)].listeners)
    ELSE <<>>

\* The entry subscribe call sid added is in the registry.
IsRegistered(store, hp, sid) ==
    \E i \in 1..Len(Registered(store, hp, subs[sid].eventName)) :
        Registered(store, hp, subs[sid].eventName)[i] = sid

\* --------------------------------------------------- createEventEmitter
\* Variant: eventsStore is declared once, outside createEventEmitter.
Environment_moduleLevel(call) == 1

\* The scope holding the eventsStore variable that the closures of the
\* call-th createEventEmitter call are bound to: the variable is declared
\* inside the function, so each call has its own.
Environment(call) == call

\* The registry in a scope: scope 1 is the first emitter's, scope 2 the peer's.
Registry(env) ==
    IF env = 1
    THEN [eventsStore |-> eventsStore, heap |-> heap]
    ELSE [eventsStore |-> peer.eventsStore, heap |-> peer.heap]

\* A call on the peer ends: the registry it worked on is written back to the
\* scope env, p is the peer with the call recorded.
Commit(env, store, hp, p) ==
    IF env = 1
    THEN /\ eventsStore' = store
         /\ heap' = hp
         /\ peer' = p
    ELSE /\ peer' = [p EXCEPT !.eventsStore = store, !.heap = hp]
         /\ UNCHANGED <<eventsStore, heap>>

resolveEventsStore(store) ==
    IF store.defined THEN store.map ELSE EmptyEventsMap

\* The slot of eventName, or the fresh one (currentIndex 0, no listeners).
resolveEventListeners(map, eventName, fresh) ==
    IF ~EventsMapHas(map, eventName) THEN fresh ELSE EventsMapGet(map, eventName)

\* Variant: subscribe does not create the store when it is absent.
subscribe_noCreate(store, hp, sid, eventName) ==
    IF ~store.defined
    THEN [store |-> store, heap |-> hp, index |-> 0]
    ELSE LET slot == resolveEventListeners(store.map, eventName, sid)
             index == hp[slot].currentIndex
         IN [store |-> [defined |-> TRUE,
                        map |-> EventsMapSet(store.map, eventName, slot)],
             heap |-> [hp EXCEPT ![slot] =
                          [currentIndex |-> index + 1,
                           listeners |-> MapSet(hp[slot].listeners, index, sid)]],
             index |-> index]

\* Variant: currentIndex is not advanced.
subscribe_sameIndex(store, hp, sid, eventName) ==
    LET resolvedEventsStore == resolveEventsStore(store)
        slot == resolveEventListeners(resolvedEventsStore, eventName, sid)
        index == hp[slot].currentIndex
    IN [store |-> [defined |-> TRUE,
                   map |-> EventsMapSet(resolvedEventsStore, eventName, slot)],
        heap |-> [hp EXCEPT ![slot] =
                     [currentIndex |-> index,
                      listeners |-> MapSet(hp[slot].listeners, index, sid)]],
        index |-> index]

\* subscribe(eventName, listener, predicate): sid names the new entry object;
\* a slot created here gets the identity sid.
subscribe(store, hp, sid, eventName) ==
    LET resolvedEventsStore == resolveEventsStore(store)
        slot == resolveEventListeners(resolvedEventsStore, eventName, sid)
        index == hp[slot].currentIndex
        listenersMapEntry ==
            [currentIndex |-> index + 1,
             listeners |-> MapSet(hp[slot].listeners, index, sid)]
    IN [store |-> [defined |-> TRUE,
                   map |-> EventsMapSet(resolvedEventsStore, eventName, slot)],
        heap |-> [hp EXCEPT ![slot] = listenersMapEntry],
        index |-> index]

\* Variant: the handle reports the entry but does not delete it.
unsubscribe_reportOnly(store, hp, eventName, index) ==
    IF ~store.defined
    THEN [store |-> store, heap |-> hp, ret |-> FALSE]
    ELSE IF ~EventsMapHas(store.map, eventName)
    THEN [store |-> store, heap |-> hp, ret |-> FALSE]
    ELSE [store |-> store, heap |-> hp,
          ret |-> MapHas(hp[EventsMapGet(store.map, eventName)].listeners, index)]

\* Variant: a slot left without listeners stays in the store.
unsubscribe_keepSlot(store, hp, eventName, index) ==
    IF ~store.defined
    THEN [store |-> store, heap |-> hp, ret |-> FALSE]
    ELSE IF ~EventsMapHas(store.map, eventName)
    THEN [store |-> store, heap |-> hp, ret |-> FALSE]
    ELSE LET slot == EventsMapGet(store.map, eventName)
         IN [store |-> store,
             heap |-> [hp EXCEPT ![slot].listeners = MapDelete(hp[slot].listeners, index)],
             ret |-> MapHas(hp[slot].listeners, index)]

\* Variant: a store left without slots is not dropped.
unsubscribe_keepStore(store, hp, eventName, index) ==
    IF ~store.defined
    THEN [store |-> store, heap |-> hp, ret |-> FALSE]
    ELSE IF ~EventsMapHas(store.map, eventName)
    THEN [store |-> store, heap |-> hp, ret |-> FALSE]
    ELSE LET slot == EventsMapGet(store.map, eventName)
             listeners == MapDelete(hp[slot].listeners, index)
         IN [store |-> [defined |-> TRUE,
                        map |-> IF MapSize(listeners) = 0
                                THEN EventsMapDelete(store.map, eventName)
                                ELSE store.map],
             heap |-> [hp EXCEPT ![slot].listeners = listeners],
             ret |-> MapHas(hp[slot].listeners, index)]

\* The closure subscribe returns; it captured eventName and index.
unsubscribe(store, hp, eventName, index) ==
    IF ~store.defined
    THEN [store |-> store, heap |-> hp, ret |-> FALSE]
    ELSE IF ~EventsMapHas(store.map, eventName)
    THEN [store |-> store, heap |-> hp, ret |-> FALSE]
    ELSE LET slot == EventsMapGet(store.map, eventName)
             hasDeleted == MapHas(hp[slot].listeners, index)
             listeners == MapDelete(hp[slot].listeners, index)
             map1 == IF MapSize(listeners) = 0
                     THEN EventsMapDelete(store.map, eventName)
                     ELSE store.map
         IN [store |-> IF EventsMapSize(map1) = 0
                       THEN Undefined
                       ELSE [defined |-> TRUE, map |-> map1],
             heap |-> [hp EXCEPT ![slot].listeners = listeners],
             ret |-> hasDeleted]

\* !eventName: the argument was omitted, or it is the empty string.
Falsy(arg) == arg = <<>> \/ arg[1] = ""

\* Variant: eventsStore.clear() without dropping the store.
unsubscribeAll_keepStore(store, arg) ==
    IF ~store.defined
    THEN store
    ELSE IF Falsy(arg)
    THEN [defined |-> TRUE, map |-> EventsMapClear(store.map)]
    ELSE LET map1 == EventsMapDelete(store.map, arg[1])
         IN IF EventsMapSize(map1) = 0
            THEN Undefined
            ELSE [defined |-> TRUE, map |-> map1]

\* Variant: unsubscribeAll leaves the store as it is.
unsubscribeAll_nothing(store, arg) == store

\* unsubscribeAll(eventName?): arg is <<>> or <<eventName>>.  The slot
\* objects themselves are not touched.
unsubscribeAll(store, arg) ==
    IF ~store.defined
    THEN store
    ELSE IF Falsy(arg)
    THEN Undefined
    ELSE LET map1 == EventsMapDelete(store.map, arg[1])
         IN IF EventsMapSize(map1) = 0
            THEN Undefined
            ELSE [defined |-> TRUE, map |-> map1]

\* Variant: emit iterates some slot of the store, whatever the event name.
emitLookup_anySlot(store, eventName) ==
    IF ~store.defined
    THEN NoSlot
    ELSE LET present == {x \in Events : EventsMapHas(store.map, x)}
         IN IF present = {}
            THEN NoSlot
            ELSE EventsMapGet(store.map, CHOOSE x \in present : TRUE)

\* emit's lookup: the slot to iterate, or NoSlot when emit returns at once.
emitLookup(store, eventName) ==
    IF ~store.defined THEN NoSlot ELSE EventsMapGet(store.map, eventName)

\* predicate(data) of a subscription made with a predicate.
PredicateResult(p, data) == data = p

\* The calls of the predicate the forEach callback makes for one entry, with
\* their results: predicate && !predicate(data).
predicateCalls(p, data) == IF p # 0 THEN <<PredicateResult(p, data)>> ELSE <<>>

\* Variant: the result of the predicate is not negated.
Passes_inverted(calls) == ~(Len(calls) > 0 /\ calls[Len(calls)])

\* The callback goes on to the listener unless the predicate returned false.
Passes(calls) == ~(Len(calls) > 0 /\ ~calls[Len(calls)])

\* Variant: the listener gets a payload other than the emitted one.
ListenerArgs_otherData(eventName, data) == [name |-> eventName, data |-> 3 - data]

\* The arguments emit hands to a listener (once forwards them unchanged).
ListenerArgs(eventName, data) == [name |-> eventName, data |-> data]

\* Variant: a later resolve replaces the value.
Resolve_overwrite(p, data) == data

\* Promise resolve: settles a pending promise, no effect on a settled one.
Resolve(p, data) == IF p = 0 THEN data ELSE p

\* Variant: the adapter of once does not forward to the user's listener.
Forwards_plainOnly(kind) == kind = "plain"

\* The function stored in the entry ends up calling the user's listener: the
\* listener itself, or the adapter of once; the adapter of awaited resolves.
Forwards(kind) == kind # "awaited"

\* Variant: no adapter calls its handle.
SelfUnsubscribes_never(kind) == FALSE

\* The function stored in the entry is an adapter that first calls its own
\* unsubscribe handle (once, awaited).
SelfUnsubscribes(kind) == kind # "plain"

\* Variant: emit catches what a listener or predicate throws and goes on.
Unwind_caught(stk) == [stk EXCEPT ![Len(stk)] = [@ EXCEPT !.pc = "iter", !.sid = 0]]

\* An exception thrown inside the forEach callback: nothing in emit catches
\* it, the innermost emit call is abandoned and its caller gets the exception.
Unwind(stk) == SubSeq(stk, 1, Len(stk) - 1)

\* ---------------------------------------------------------------- Init
Init ==
    /\ eventsStore = Undefined
    /\ heap = [s \in Sids |-> NewListenersMapEntry]
    /\ subs = <<>>
    /\ stack = <<>>
    /\ handleLog = [s \in Sids |-> <<>>]
    /\ invoked = [s \in Sids |-> 0]
    /\ promise = [s \in Sids |-> 0]
    /\ lastCall = [op |-> "none", arg |-> <<>>, num |-> 0]
    /\ seen = [s \in Sids |-> 0]
    /\ swept = {}
    /\ ops = 0
    /\ budget = MaxOps
    /\ peer = NewEmitter

\* -------------------------------------------------------------- actions
\* A call of subscribe, directly or through once(subscribe) / awaited(subscribe).
Subscribe(kind, e, l, p) ==
    /\ UserCode
    /\ LET sid == Len(subs) + 1
           r == subscribe(eventsStore, heap, sid, e)
       IN /\ eventsStore' = r.store
          /\ heap' = r.heap
          /\ subs' = Append(subs, [eventName |-> e, index |-> r.index, kind |-> kind,
                                   listener |-> l, predicate |-> p])
          /\ stack' = Mark(stack, TRUE, FALSE)
    /\ lastCall' = [op |-> kind, arg |-> <<e>>, num |-> 0]
    /\ ops' = ops + 1
    /\ UNCHANGED <<handleLog, invoked, promise, seen, swept, budget, peer>>

SubscribePlain == \E e \in Events, l \in Listeners, p \in Predicates : Subscribe("plain", e, l, p)

SubscribeOnce == \E e \in Events, l \in Listeners : Subscribe("once", e, l, 0)

SubscribeAwaited == \E e \in Events : Subscribe("awaited", e, 0, 0)

\* User code calls the handle a plain subscribe returned.
UnsubscribeCall(sid) ==
    /\ UserCode
    /\ sid \in 1..Len(subs)
    /\ subs[sid].kind = "plain"
    /\ LET s == subs[sid]
           live == IsRegistered(eventsStore, heap, sid)
           r == unsubscribe(eventsStore, heap, s.eventName, s.index)
       IN /\ eventsStore' = r.store
          /\ heap' = Collect(r.heap, r.store, stack)
          /\ handleLog' = [handleLog EXCEPT ![sid] = Append(@, [ret |-> r.ret, live |-> live, data |-> 0])]
          /\ stack' = Mark(stack, r.store # eventsStore \/ r.heap # heap, TRUE)
    /\ lastCall' = [op |-> "unsubscribe", arg |-> <<>>, num |-> sid]
    /\ ops' = ops + 1
    /\ UNCHANGED <<subs, invoked, promise, seen, swept, budget, peer>>

Unsubscribe == \E sid \in Sids : UnsubscribeCall(sid)

UnsubscribeAllCall(arg) ==
    /\ UserCode
    /\ LET store == unsubscribeAll(eventsStore, arg)
       IN /\ eventsStore' = store
          /\ heap' = Collect(heap, store, stack)
          /\ stack' = Mark(stack, store # eventsStore, FALSE)
          /\ swept' = swept \cup {x \in 1..Len(subs) :
                                    IsRegistered(eventsStore, heap, x) /\ ~IsRegistered(store, heap, x)}
    /\ lastCall' = [op |-> "unsubscribeAll", arg |-> arg, num |-> 0]
    /\ ops' = ops + 1
    /\ UNCHANGED <<subs, handleLog, invoked, promise, seen, budget, peer>>

UnsubscribeAll == \E arg \in {<<>>} \cup {<<e>> : e \in Events} : UnsubscribeAllCall(arg)

\* emit(eventName, data) is called: it returns at once, or starts forEach.
EmitCall(e, d) ==
    /\ UserCode
    /\ LET slot == emitLookup(eventsStore, e)
       IN IF slot = NoSlot
          THEN stack' = stack
          ELSE stack' = Append(stack,
                   [eventName |-> e, data |-> d, slot |-> slot, last |-> -1,
                    pc |-> "iter", sid |-> 0, visits |-> <<>>,
                    snap |-> MapValues(heap[slot].listeners),
                    handled |-> {x \in Sids : Len(handleLog[x]) > 0},
                    mutated |-> FALSE, others |-> FALSE])
    /\ lastCall' = [op |-> "emit", arg |-> <<e>>, num |-> d]
    /\ seen' = [x \in Sids |->
                 IF x <= Len(subs) /\ seen[x] = 0 /\ subs[x].eventName = e THEN d ELSE seen[x]]
    /\ ops' = ops + 1
    /\ UNCHANGED <<eventsStore, heap, subs, handleLog, invoked, promise, swept, budget, peer>>

Emit == \E e \in Events, d \in Data : EmitCall(e, d)

\* forEach reaches the next entry: the predicate is evaluated, then the
\* listener is called.  A plain listener is user code (pc "body"); the adapter
\* of once calls its handle and then the user's listener; the adapter of
\* awaited calls its handle and resolves the promise.
Visit ==
    /\ Len(stack) > 0
    /\ Top.pc = "iter"
    /\ ForEachHasNext(heap[Top.slot].listeners, Top.last)
    /\ LET f == Top
           n == Len(stack)
           ent == ForEachNext(heap[f.slot].listeners, f.last)
           sid == ent.value
           s == subs[sid]
           args == ListenerArgs(f.eventName, f.data)
           calls == predicateCalls(s.predicate, f.data)
           passes == Passes(calls)
           visit == [sid |-> sid, pred |-> calls, called |-> passes,
                     name |-> args.name, data |-> args.data]
           f1 == [f EXCEPT !.last = ent.key, !.visits = Append(@, visit)]
           live == IsRegistered(eventsStore, heap, sid)
           r == unsubscribe(eventsStore, heap, s.eventName, s.index)
           changed == r.store # eventsStore \/ r.heap # heap
       IN IF ~passes
          THEN /\ stack' = [stack EXCEPT ![n] = f1]
               /\ UNCHANGED <<eventsStore, heap, handleLog, invoked, promise>>
          ELSE IF ~SelfUnsubscribes(s.kind)
          THEN /\ stack' = [stack EXCEPT ![n] = [f1 EXCEPT !.pc = "body", !.sid = sid]]
               /\ invoked' = [invoked EXCEPT ![sid] = @ + 1]
               /\ UNCHANGED <<eventsStore, heap, handleLog, promise>>
          ELSE /\ eventsStore' = r.store
               /\ heap' = Collect(r.heap, r.store, stack)
               /\ handleLog' = [handleLog EXCEPT ![sid] = Append(@, [ret |-> r.ret, live |-> live, data |-> args.data])]
               /\ IF Forwards(s.kind)
                  THEN /\ stack' = MarkBelow([stack EXCEPT ![n] = [f1 EXCEPT !.pc = "body", !.sid = sid]], changed)
                       /\ invoked' = [invoked EXCEPT ![sid] = @ + 1]
                       /\ promise' = promise
                  ELSE /\ stack' = MarkBelow([stack EXCEPT ![n] = f1], changed)
                       /\ promise' = IF s.kind = "awaited"
                                     THEN [promise EXCEPT ![sid] = Resolve(@, args.data)]
                                     ELSE promise
                       /\ invoked' = invoked
    /\ UNCHANGED <<subs, lastCall, seen, swept, ops, budget, peer>>

\* The running listener returns: forEach goes on.
ListenerReturn ==
    /\ Len(stack) > 0
    /\ Top.pc = "body"
    /\ stack' = [stack EXCEPT ![Len(stack)] = [@ EXCEPT !.pc = "iter", !.sid = 0]]
    /\ UNCHANGED <<eventsStore, heap, subs, handleLog, invoked, promise, lastCall, seen, swept, ops, budget, peer>>

\* The running listener throws: nothing catches it in emit, the call is
\* abandoned and the exception reaches emit's caller.
ListenerThrow ==
    /\ Len(stack) > 0
    /\ Top.pc = "body"
    /\ stack' = Unwind(stack)
    /\ heap' = Collect(heap, eventsStore, stack')
    /\ UNCHANGED <<eventsStore, subs, handleLog, invoked, promise, lastCall, seen, swept, ops, budget, peer>>

\* forEach reaches the next entry and its predicate, user code as well,
\* throws instead of returning: the listener is not called.
PredicateThrow ==
    /\ Len(stack) > 0
    /\ Top.pc = "iter"
    /\ ForEachHasNext(heap[Top.slot].listeners, Top.last)
    /\ subs[ForEachNext(heap[Top.slot].listeners, Top.last).value].predicate # 0
    /\ stack' = Unwind(stack)
    /\ heap' = Collect(heap, eventsStore, stack')
    /\ UNCHANGED <<eventsStore, subs, handleLog, invoked, promise, lastCall, seen, swept, ops, budget, peer>>

\* forEach has no entry left: emit returns.
EmitReturn ==
    /\ Len(stack) > 0
    /\ Top.pc = "iter"
    /\ ~ForEachHasNext(heap[Top.slot].listeners, Top.last)
    /\ stack' = SubSeq(stack, 1, Len(stack) - 1)
    /\ heap' = Collect(heap, eventsStore, stack')
    /\ UNCHANGED <<eventsStore, subs, handleLog, invoked, promise, lastCall, seen, swept, ops, budget, peer>>

Next ==
    \/ SubscribePlain
    \/ SubscribeOnce
    \/ SubscribeAwaited
    \/ Unsubscribe
    \/ UnsubscribeAll
    \/ Emit
    \/ Visit
    \/ ListenerReturn
    \/ ListenerThrow
    \/ PredicateThrow
    \/ EmitReturn

Spec == Init /\ [][Next]_vars

\* ------------------------------------------------------- the second emitter
\* subscribe(eventName, listener) on the peer.
PeerSubscribeCall(e) ==
    /\ UserCode
    /\ LET env == Environment(2)
           sid == Len(peer.subs) + 1
           r == subscribe(Registry(env).eventsStore, Registry(env).heap, sid, e)
       IN Commit(env, r.store, r.heap,
                 [peer EXCEPT !.subs = Append(@, [eventName |-> e, index |-> r.index]),
                              !.calls = @ + 1])
    /\ ops' = ops + 1
    /\ UNCHANGED <<subs, stack, handleLog, invoked, promise, lastCall, seen, swept, budget>>

PeerSubscribe == \E e \in Events : PeerSubscribeCall(e)

\* A handle a subscribe call on the peer returned is called.
PeerUnsubscribeCall(sid) ==
    /\ UserCode
    /\ sid \in 1..Len(peer.subs)
    /\ LET env == Environment(2)
           s == peer.subs[sid]
           r == unsubscribe(Registry(env).eventsStore, Registry(env).heap, s.eventName, s.index)
       IN Commit(env, r.store, Collect(r.heap, r.store, <<>>),
                 [peer EXCEPT !.calls = @ + 1])
    /\ ops' = ops + 1
    /\ UNCHANGED <<subs, stack, handleLog, invoked, promise, lastCall, seen, swept, budget>>

PeerUnsubscribe == \E sid \in Sids : PeerUnsubscribeCall(sid)

\* unsubscribeAll(eventName?) on the peer.
PeerUnsubscribeAllCall(arg) ==
    /\ UserCode
    /\ LET env == Environment(2)
           store == unsubscribeAll(Registry(env).eventsStore, arg)
       IN Commit(env, store, Collect(Registry(env).heap, store, <<>>),
                 [peer EXCEPT !.calls = @ + 1])
    /\ ops' = ops + 1
    /\ UNCHANGED <<subs, stack, handleLog, invoked, promise, lastCall, seen, swept, budget>>

PeerUnsubscribeAll == \E arg \in {<<>>} \cup {<<e>> : e \in Events} : PeerUnsubscribeAllCall(arg)

\* emit(eventName, data) on the peer: forEach calls every listener of the
\* slot; the listeners do nothing with the payload and change nothing.
PeerEmitCall(e) ==
    /\ UserCode
    /\ LET env == Environment(2)
           slot == emitLookup(Registry(env).eventsStore, e)
           called == IF slot = NoSlot
                     THEN {}
                     ELSE {m.value : m \in {Registry(env).heap[slot].listeners[i] :
                                               i \in 1..Len(Registry(env).heap[slot].listeners)}}
       IN Commit(env, Registry(env).eventsStore, Registry(env).heap,
                 [peer EXCEPT !.invoked = [x \in Sids |-> IF x \in called THEN @[x] + 1 ELSE @[x]],
                              !.calls = @ + 1])
    /\ ops' = ops + 1
    /\ UNCHANGED <<subs, stack, handleLog, invoked, promise, lastCall, seen, swept, budget>>

PeerEmit == \E e \in Events : PeerEmitCall(e)

\* Two emitters side by side: user code, at top level or inside a listener of
\* the first emitter, calls either of them.
NextTwo ==
    \/ SubscribePlain
    \/ SubscribeOnce
    \/ SubscribeAwaited
    \/ Unsubscribe
    \/ UnsubscribeAll
    \/ Emit
    \/ Visit
    \/ ListenerReturn
    \/ ListenerThrow
    \/ PredicateThrow
    \/ EmitReturn
    \/ PeerSubscribe
    \/ PeerUnsubscribe
    \/ PeerUnsubscribeAll
    \/ PeerEmit

SpecTwo == Init /\ [][NextTwo]_vars

\* The same emitter, driven one call further.
InitDeep ==
    /\ eventsStore = Undefined
    /\ heap = [s \in Sids |-> NewListenersMapEntry]
    /\ subs = <<>>
    /\ stack = <<>>
    /\ handleLog = [s \in Sids |-> <<>>]
    /\ invoked = [s \in Sids |-> 0]
    /\ promise = [s \in Sids |-> 0]
    /\ lastCall = [op |-> "none", arg |-> <<>>, num |-> 0]
    /\ seen = [s \in Sids |-> 0]
    /\ swept = {}
    /\ ops = 0
    /\ budget = MaxOps + 1
    /\ peer = NewEmitter

SpecDeep == InitDeep /\ [][Next]_vars

\* ------------------------------------------------------ shared notions
\* The listener calls one emit has made so far, in order.
Invocations(f) == SelectSeq(f.visits, LAMBDA v : v.called)

SidsOf(visits) == IF Len(visits) = 0 THEN <<>> ELSE [i \in 1..Len(visits) |-> visits[i].sid]

\* forEach of emit call i has run to its end (the call is about to return).
Finished(i) ==
    /\ i = Len(stack)
    /\ stack[i].pc = "iter"
    /\ ~ForEachHasNext(heap[stack[i].slot].listeners, stack[i].last)

\* ------------------------------------------------------------- claims
\* C1: Idempotent unsubscribe.  For a handle returned by subscribe(e, L):
\* the first call, made while L's subscription is registered, returns true;
\* every later call of that handle returns false; and no emit that starts
\* after the first call invokes L through that subscription.
C1_IdempotentUnsubscribe ==
    \A sid \in 1..Len(subs) :
        (subs[sid].kind = "plain" /\ Len(handleLog[sid]) > 0 /\ handleLog[sid][1].live) =>
            /\ handleLog[sid][1].ret
            /\ \A j \in 2..Len(handleLog[sid]) : ~handleLog[sid][j].ret
            /\ \A i \in 1..Len(stack) :
                   sid \in stack[i].handled =>
                       \A k \in 1..Len(stack[i].visits) : stack[i].visits[k].sid # sid

\* C2: Ordering.  One emit(e, d) invokes the listeners registered for e in
\* the order of their subscribe calls (subscribe call numbers grow with time),
\* and an emit that ran to its end undisturbed has invoked all of them that
\* its predicate lets through, each before emit returns.
C2_Ordering ==
    \A i \in 1..Len(stack) :
        LET inv == SidsOf(Invocations(stack[i]))
        IN /\ \A a, b \in 1..Len(inv) : a < b => inv[a] < inv[b]
           /\ (Finished(i) /\ ~stack[i].mutated) =>
                  inv = SelectSeq(stack[i].snap,
                            LAMBDA x : subs[x].predicate = 0
                                       \/ PredicateResult(subs[x].predicate, stack[i].data))

\* An emit has run to its end and invoked two listeners.
C2_Witness ==
    \E i \in 1..Len(stack) :
        Finished(i) /\ ~stack[i].mutated /\ Len(Invocations(stack[i])) >= 2

\* C3: Exactly-once delivery.  In an emit(e, d) during which nothing changes
\* the registry and nothing throws, every listener registered for e without a
\* predicate is invoked exactly once, with (e, d) as arguments, and no listener
\* registered under another event name is invoked.
C3_ExactlyOnce ==
    \A i \in 1..Len(stack) :
        LET f == stack[i]
        IN /\ \A k \in 1..Len(f.visits) : subs[f.visits[k].sid].eventName = f.eventName
           /\ (Finished(i) /\ ~f.mutated) =>
                  \A j \in 1..Len(f.snap) :
                      subs[f.snap[j]].predicate = 0 =>
                          /\ Cardinality({k \in 1..Len(f.visits) : f.visits[k].sid = f.snap[j]}) = 1
                          /\ \A k \in 1..Len(f.visits) :
                                 f.visits[k].sid = f.snap[j] =>
                                     /\ f.visits[k].called
                                     /\ f.visits[k].name = f.eventName
                                     /\ f.visits[k].data = f.data

\* An undisturbed emit has run to its end over two listeners without
\* predicate while the other event has a listener too.
C3_Witness ==
    \E i \in 1..Len(stack) :
        /\ Finished(i) /\ ~stack[i].mutated
        /\ Len(stack[i].snap) >= 2
        /\ \A j \in 1..Len(stack[i].snap) : subs[stack[i].snap[j]].predicate = 0
        /\ \E e \in Events : e # stack[i].eventName /\ Len(Registered(eventsStore, heap, e)) > 0

\* C4: Predicate gating.  Each time emit(e, d) reaches the entry of a listener
\* subscribed with a predicate p it calls p(d) exactly once and invokes the
\* listener iff that call returned true; an entry without predicate is invoked
\* without any predicate call.
C4_PredicateGating ==
    \A i \in 1..Len(stack) :
        \A k \in 1..Len(stack[i].visits) :
            LET v == stack[i].visits[k]
                p == subs[v.sid].predicate
            IN IF p # 0
               THEN /\ Len(v.pred) = 1
                    /\ v.pred[1] = PredicateResult(p, stack[i].data)
                    /\ v.called = v.pred[1]
               ELSE v.pred = <<>> /\ v.called

\* The listener of a subscription with predicate ran in an earlier emit and is
\* held back by the predicate in the current one.
C4_Witness ==
    \E i \in 1..Len(stack) :
        \E k \in 1..Len(stack[i].visits) :
            /\ stack[i].visits[k].pred = <<FALSE>>
            /\ ~stack[i].visits[k].called
            /\ invoked[stack[i].visits[k].sid] = 1

\* C5: Event isolation.  For distinct event names e1 and e2: a call of an
\* unsubscribe handle issued for e1, a call unsubscribeAll(e1) and every step
\* of emit(e1, d) (the call, and each visit of one of its entries) leave the
\* sequence of listeners registered under e2 as it was and invoke none of
\* them.
C5_EventIsolation ==
    [][\A e2 \in Events :
          ( \/ \E sid \in Sids : UnsubscribeCall(sid) /\ subs[sid].eventName # e2
            \/ \E e1 \in Events \ {e2} : UnsubscribeAllCall(<<e1>>)
            \/ \E e1 \in Events \ {e2}, d \in Data : EmitCall(e1, d)
            \/ (Visit /\ Top.eventName # e2) )
          => /\ Registered(eventsStore', heap', e2) = Registered(eventsStore, heap, e2)
             /\ \A s \in 1..Len(subs) :
                    subs[s].eventName = e2 => invoked'[s] = invoked[s]]_vars

\* C6: unsubscribeAll() without argument leaves the registry absent and no
\* listener registered under any event name, and changes nothing when the
\* registry is already absent; while the registry is absent an emit call
\* starts no iteration and invokes no listener; only a subscribe call makes
\* the registry present again.
C6_UnsubscribeAllEverything ==
    [][/\ UnsubscribeAllCall(<<>>) =>
              /\ ~eventsStore'.defined
              /\ \A e \in Events : Registered(eventsStore', heap', e) = <<>>
              /\ ~eventsStore.defined => UNCHANGED <<eventsStore, heap, stack, invoked>>
       /\ \A e \in Events, d \in Data :
              (~eventsStore.defined /\ EmitCall(e, d)) =>
                  UNCHANGED <<eventsStore, heap, stack, invoked, promise>>
       /\ (~eventsStore.defined /\ eventsStore'.defined) => Len(subs') = Len(subs) + 1]_vars

\* unsubscribeAll() has just dropped listeners of two different event names.
C6_Witness ==
    /\ lastCall = [op |-> "unsubscribeAll", arg |-> <<>>, num |-> 0]
    /\ ~eventsStore.defined
    /\ \E a \in swept, b \in swept : subs[a].eventName # subs[b].eventName
    /\ \A sid \in Sids : handleLog[sid] = <<>>

\* C7: unsubscribeAll(e) removes the listeners registered under e and only
\* those: afterwards none is registered under e, every other event name keeps
\* its listeners, the registry is absent afterwards exactly when no other
\* event name had listeners, and the call changes nothing when the registry
\* is absent or e has no slot.
C7_UnsubscribeAllEvent ==
    [][\A e \in Events :
          UnsubscribeAllCall(<<e>>) =>
              /\ Registered(eventsStore', heap', e) = <<>>
              /\ \A e2 \in Events \ {e} :
                     Registered(eventsStore', heap', e2) = Registered(eventsStore, heap, e2)
              /\ eventsStore.defined =>
                     (~eventsStore'.defined <=>
                          \A e2 \in Events \ {e} : Registered(eventsStore, heap, e2) = <<>>)
              /\ (~eventsStore.defined \/ ~EventsMapHas(eventsStore.map, e)) =>
                     UNCHANGED <<eventsStore, heap, stack>>]_vars

\* C8: once at-most-once.  A listener registered through once is invoked at
\* most once in total, whatever calls are made, re-entrant ones included.
C8_OnceAtMostOnce ==
    \A sid \in 1..Len(subs) : subs[sid].kind = "once" => invoked[sid] <= 1

\* C9: once fires on the first matching emission.  For a listener L
\* registered via once under e: as long as no emit(e, d) has been called
\* since the registration, L has not been invoked and its subscription has
\* not been consumed; and once an emit(e, d) has been called after the
\* registration and has returned, L has been invoked exactly once, unless an
\* unsubscribeAll removed the subscription.
C9_OnceFiresOnFirstEmit ==
    \A sid \in 1..Len(subs) :
        subs[sid].kind = "once" =>
            /\ seen[sid] = 0 => (invoked[sid] = 0 /\ handleLog[sid] = <<>>)
            /\ (seen[sid] # 0 /\ sid \notin swept /\ Len(stack) = 0) => invoked[sid] = 1

\* C9 (amended): for a listener L registered via once under e, every visit of
\* its entry is made by an emit of e and hands L that emit's (e, d); and an
\* emit(e, d) that starts while the subscription is registered and runs to
\* its end, with no throw and no registry change made from a listener, has
\* invoked L exactly once, which is L's only invocation so far.
C9_OnceFiresWhenReached ==
    \A sid \in 1..Len(subs) :
        subs[sid].kind = "once" =>
            \A i \in 1..Len(stack) :
                LET f == stack[i]
                    mine == SelectSeq(f.visits, LAMBDA v : v.sid = sid)
                IN /\ \A k \in 1..Len(mine) :
                          /\ f.eventName = subs[sid].eventName
                          /\ mine[k].called
                          /\ mine[k].name = f.eventName
                          /\ mine[k].data = f.data
                   /\ (Finished(i) /\ ~f.mutated /\ \E k \in 1..Len(f.snap) : f.snap[k] = sid) =>
                          /\ Len(mine) = 1
                          /\ invoked[sid] = 1

\* An emit of the other event name invoked its listener, subscribed after the
\* once subscription, and then an emit of e has run to its end and invoked L.
C9_Witness ==
    /\ Len(stack) > 0
    /\ Finished(Len(stack))
    /\ ~Top.mutated
    /\ \E sid \in 1..Len(subs), other \in 1..Len(subs) :
           /\ subs[sid].kind = "once"
           /\ \E k \in 1..Len(Top.snap) : Top.snap[k] = sid
           /\ invoked[sid] = 1
           /\ other > sid
           /\ subs[other].eventName # subs[sid].eventName
           /\ invoked[other] = 1

\* C10: awaited resolves with the first matching payload.  The promise of
\* awaited(subscribe)(e) is settled only with the payload of the first
\* emit(e, d) called after the awaited call, and it is settled with it once
\* that emit has returned.
C10_AwaitedFirstPayload ==
    \A sid \in 1..Len(subs) :
        subs[sid].kind = "awaited" =>
            /\ promise[sid] # 0 => promise[sid] = seen[sid]
            /\ (seen[sid] # 0 /\ Len(stack) = 0) => promise[sid] = seen[sid]

\* C10 (amended): the promise of awaited(subscribe)(e) is pending until its
\* adapter first runs and from then on holds the payload of that run,
\* whatever is emitted later; the adapter runs only in emits of e and gets
\* that emit's payload; and an emit(e, d) that starts while the subscription
\* is registered and runs to its end, with no throw and no registry change
\* made from a listener, leaves the promise resolved with d.
C10_AwaitedResolvesWhenReached ==
    \A sid \in 1..Len(subs) :
        subs[sid].kind = "awaited" =>
            /\ promise[sid] = IF Len(handleLog[sid]) = 0 THEN 0 ELSE handleLog[sid][1].data
            /\ \A i \in 1..Len(stack) :
                   LET f == stack[i]
                       mine == SelectSeq(f.visits, LAMBDA v : v.sid = sid)
                   IN /\ \A k \in 1..Len(mine) :
                             /\ f.eventName = subs[sid].eventName
                             /\ mine[k].data = f.data
                      /\ (Finished(i) /\ ~f.mutated /\ \E k \in 1..Len(f.snap) : f.snap[k] = sid) =>
                             promise[sid] = f.data

\* The promise was resolved by one emit and a later emit of the same event
\* name with another payload has returned.
C10_Witness ==
    /\ Len(stack) = 0
    /\ \E sid \in 1..Len(subs) :
           /\ subs[sid].kind = "awaited"
           /\ promise[sid] # 0
           /\ lastCall.op = "emit"
           /\ lastCall.arg[1] = subs[sid].eventName
           /\ lastCall.num # promise[sid]

\* C11: awaited stays pending without a matching event.  The promise of
\* awaited(subscribe)(e) changes only in a step of an emit call of e (a visit
\* made by its forEach), and an emit call in progress for e exists only
\* because emit(e, d) was called; so without an emit of e, whatever is
\* emitted under other names, the promise stays pending.
C11_AwaitedStaysPending ==
    [][/\ \A sid \in 1..Len(subs) :
              (subs[sid].kind = "awaited" /\ promise'[sid] # promise[sid]) =>
                  /\ Len(stack) > 0
                  /\ Top.pc = "iter"
                  /\ Top.eventName = subs[sid].eventName
       /\ Len(stack') > Len(stack) =>
              \E e \in Events, d \in Data :
                  /\ EmitCall(e, d)
                  /\ stack'[Len(stack')].eventName = e
                  /\ SubSeq(stack', 1, Len(stack)) = stack]_vars

\* An emit of another event name, made after the awaited call, has invoked
\* its listener and returned; no emit of e was made: the promise is pending.
C11_Witness ==
    /\ Len(stack) = 0
    /\ \E sid \in 1..Len(subs), other \in 1..Len(subs) :
           /\ subs[sid].kind = "awaited"
           /\ other > sid
           /\ subs[other].eventName # subs[sid].eventName
           /\ invoked[other] >= 1
           /\ seen[sid] = 0
           /\ IsRegistered(eventsStore, heap, sid)
           /\ promise[sid] = 0

\* C12: Emit with no listeners is a silent no-op.  When the registry is
\* absent or has no slot for e, the call emit(e, d) starts no iteration (so
\* no predicate and no listener runs and nothing is thrown) and leaves the
\* registry, the slots and every subscription as they were.
C12_EmitNoListeners ==
    [][\A e \in Events, d \in Data :
          (EmitCall(e, d) /\ (~eventsStore.defined \/ ~EventsMapHas(eventsStore.map, e))) =>
              /\ stack' = stack
              /\ UNCHANGED <<eventsStore, heap, subs, handleLog, invoked, promise>>]_vars

\* The only listener of e was removed by its handle, another event name still
\* has a listener, and emit(e, d) has been called: nothing ran.
C12_Witness ==
    /\ lastCall.op = "emit"
    /\ Len(stack) = 0
    /\ eventsStore.defined
    /\ ~EventsMapHas(eventsStore.map, lastCall.arg[1])
    /\ \E sid \in 1..Len(subs) :
           /\ subs[sid].eventName = lastCall.arg[1]
           /\ Len(handleLog[sid]) = 1
           /\ handleLog[sid][1].ret
    /\ \A sid \in Sids : invoked[sid] = 0

\* C13: Removed is terminal.  A call of the handle of a subscription that is
\* no longer registered (removed by its own handle or by unsubscribeAll)
\* returns false and leaves the registry unchanged, also when new listeners
\* have been subscribed to the same event name since.
C13_RemovedIsTerminal ==
    [][\A sid \in Sids :
          (UnsubscribeCall(sid) /\ ~IsRegistered(eventsStore, heap, sid)) =>
              /\ ~handleLog'[sid][Len(handleLog'[sid])].ret
              /\ UNCHANGED <<eventsStore, heap>>]_vars

\* C14: No empty slot persists.  Every slot present in the registry holds at
\* least one listener entry.
C14_NoEmptySlot ==
    \A e \in Events :
        (eventsStore.defined /\ EventsMapHas(eventsStore.map, e)) =>
            MapSize(heap[EventsMapGet(eventsStore.map, e)].listeners) > 0

\* A handle has just removed the last listener of its event name while
\* another event name keeps a listener: the emptied slot is gone.
C14_Witness ==
    /\ lastCall.op = "unsubscribe"
    /\ handleLog[lastCall.num][Len(handleLog[lastCall.num])].ret
    /\ eventsStore.defined
    /\ ~EventsMapHas(eventsStore.map, subs[lastCall.num].eventName)

\* C15: Registry present iff some listener is registered.  The store is
\* undefined exactly when no event name has a registered listener, and a
\* defined store is never an empty container.
C15_RegistryIffListeners ==
    /\ eventsStore.defined <=> \E e \in Events : Len(Registered(eventsStore, heap, e)) > 0
    /\ eventsStore.defined => EventsMapSize(eventsStore.map) > 0
    /\ ~eventsStore.defined => eventsStore.map = EmptyEventsMap

\* Listeners of two event names were subscribed and a handle has just removed
\* the last one left: the store is undefined again.
C15_Witness ==
    /\ lastCall.op = "unsubscribe"
    /\ handleLog[lastCall.num][Len(handleLog[lastCall.num])].ret
    /\ ~eventsStore.defined
    /\ \E a \in 1..Len(subs), b \in 1..Len(subs) : subs[a].eventName # subs[b].eventName

\* C16: Listener and predicate exceptions propagate.  When a listener or a
\* predicate throws during emit(e, d): that emit call is abandoned at once
\* (the exception reaches its caller, the entries not yet visited are not
\* visited by it); the throw changes neither the registry nor any
\* subscription; and if no listener has changed the registry during the
\* call, the entries registered before the thrower have all been visited in
\* order, each invoked when its predicate let it through, while the thrower,
\* when subscribed by a plain subscribe, and all later entries are still
\* registered.
C16_ExceptionsPropagate ==
    [][(ListenerThrow \/ PredicateThrow) =>
          LET f == Top
              thrower == IF f.pc = "body"
                         THEN f.sid
                         ELSE ForEachNext(heap[f.slot].listeners, f.last).value
              before == IF f.pc = "body"
                        THEN SubSeq(f.visits, 1, Len(f.visits) - 1)
                        ELSE f.visits
          IN /\ stack' = SubSeq(stack, 1, Len(stack) - 1)
             /\ UNCHANGED <<eventsStore, subs, handleLog, invoked, promise>>
             /\ \A e \in Events :
                    Registered(eventsStore', heap', e) = Registered(eventsStore, heap, e)
             /\ ~f.mutated =>
                    \E k \in 1..Len(f.snap) :
                        /\ f.snap[k] = thrower
                        /\ SidsOf(before) = SubSeq(f.snap, 1, k - 1)
                        /\ \A j \in 1..Len(before) :
                               /\ before[j].called =
                                      Passes(predicateCalls(subs[before[j].sid].predicate, f.data))
                               /\ before[j].called /\ subs[before[j].sid].kind # "awaited" =>
                                      invoked[before[j].sid] >= 1
                        /\ \A j \in k..Len(f.snap) :
                               (j > k \/ subs[thrower].kind = "plain") =>
                                   IsRegistered(eventsStore', heap', f.snap[j])]_vars

\* Three listeners without predicate are registered for e; emit(e, d) invoked
\* the first two and was abandoned: the third was not invoked.
C16_Witness ==
    /\ Len(stack) = 0
    /\ lastCall.op = "emit"
    /\ Len(Registered(eventsStore, heap, lastCall.arg[1])) = 3
    /\ \A i \in 1..3 : subs[Registered(eventsStore, heap, lastCall.arg[1])[i]].predicate = 0
    /\ invoked[Registered(eventsStore, heap, lastCall.arg[1])[1]] = 1
    /\ invoked[Registered(eventsStore, heap, lastCall.arg[1])[2]] = 1
    /\ invoked[Registered(eventsStore, heap, lastCall.arg[1])[3]] = 0

C18_IndexNeverReused ==
    \A a \in 1..Len(subs), b \in 1..Len(subs) :
        (a # b /\ subs[a].eventName = subs[b].eventName) => subs[a].index # subs[b].index

\* C19: A handle removes only its own subscription.  A call of the handle of
\* one subscribe call, made by user code or by the adapter of once or
\* awaited, leaves every entry registered by another subscribe call
\* registered.
C19_HandleRemovesOnlyOwn ==
    [][/\ \A sid \in Sids :
              UnsubscribeCall(sid) =>
                  \A other \in 1..Len(subs) :
                      (other # sid /\ IsRegistered(eventsStore, heap, other)) =>
                          IsRegistered(eventsStore', heap', other)
       /\ Visit =>
              \A other \in 1..Len(subs) :
                  (other # ForEachNext(heap[Top.slot].listeners, Top.last).value
                     /\ IsRegistered(eventsStore, heap, other)) =>
                      IsRegistered(eventsStore', heap', other)]_vars

\* C20: Index invariant within a live slot.  In every slot of the registry
\* the listener keys are distinct, non-negative and smaller than the slot's
\* currentIndex, and currentIndex does not decrease from one state to the
\* next while the slot stays in the registry.
C20_IndexInvariant ==
    [][/\ \A e \in Events :
              (eventsStore'.defined /\ EventsMapHas(eventsStore'.map, e)) =>
                  LET entry == heap'[EventsMapGet(eventsStore'.map, e)]
                  IN \A i \in 1..Len(entry.listeners) :
                         /\ entry.listeners[i].key >= 0
                         /\ entry.listeners[i].key < entry.currentIndex
                         /\ \A j \in 1..Len(entry.listeners) :
                                i # j => entry.listeners[i].key # entry.listeners[j].key
       /\ \A e \in Events :
              (/\ eventsStore.defined
               /\ eventsStore'.defined
               /\ EventsMapHas(eventsStore.map, e)
               /\ EventsMapGet(eventsStore'.map, e) = EventsMapGet(eventsStore.map, e)) =>
                  heap'[EventsMapGet(eventsStore.map, e)].currentIndex >=
                      heap[EventsMapGet(eventsStore.map, e)].currentIndex]_vars

\* A slot that got three entries and lost the middle one: keys 0 and 2,
\* currentIndex 3.
C20_Witness ==
    \E e \in Events :
        /\ eventsStore.defined
        /\ EventsMapHas(eventsStore.map, e)
        /\ heap[EventsMapGet(eventsStore.map, e)].currentIndex = 3
        /\ Len(heap[EventsMapGet(eventsStore.map, e)].listeners) = 2
        /\ heap[EventsMapGet(eventsStore.map, e)].listeners[1].key = 0
        /\ heap[EventsMapGet(eventsStore.map, e)].listeners[2].key = 2

\* C21: Re-entrant handle unsubscription during emit.  In an emit(e, d)
\* during which the registry is changed only by handle calls made from
\* listeners: an entry that such a call removed before forEach reached it is
\* not visited; and when the emit ends, the entries registered at its start
\* have each been visited exactly once, in subscription order, except those
\* that were removed, and each visited listener was invoked when its
\* predicate, if any, accepted d.
C21_HandleDuringEmit ==
    [][/\ (Visit /\ ~Top.others) =>
              LET sid == ForEachNext(heap[Top.slot].listeners, Top.last).value
              IN /\ IsRegistered(eventsStore, heap, sid)
                 /\ \A j \in 1..Len(handleLog[sid]) : ~handleLog[sid][j].ret
       /\ (EmitReturn /\ ~Top.others) =>
              /\ \A k \in 1..Len(Top.visits) :
                     /\ \E n \in 1..Len(Top.snap) : Top.snap[n] = Top.visits[k].sid
                     /\ \A l \in 1..Len(Top.visits) :
                            k < l => Top.visits[k].sid < Top.visits[l].sid
                     /\ Top.visits[k].called =
                            Passes(predicateCalls(subs[Top.visits[k].sid].predicate, Top.data))
              /\ \A n \in 1..Len(Top.snap) :
                     \/ \E k \in 1..Len(Top.visits) : Top.visits[k].sid = Top.snap[n]
                     \/ ~IsRegistered(eventsStore, heap, Top.snap[n])]_vars

\* The first of two listeners removed itself through its handle while it was
\* being invoked; the emit went on to the second one and has ended.
C21_Witness ==
    /\ Len(stack) > 0
    /\ Finished(Len(stack))
    /\ Top.mutated
    /\ ~Top.others
    /\ Len(Top.snap) = 2
    /\ SidsOf(Top.visits) = Top.snap
    /\ Len(handleLog[Top.snap[1]]) = 1
    /\ handleLog[Top.snap[1]][1].ret
    /\ subs[Top.snap[1]].kind = "plain"
    /\ invoked[Top.snap[1]] = 1
    /\ invoked[Top.snap[2]] = 1

\* C22: Re-entrant unsubscribeAll during emit.  No emit visits an entry that
\* an unsubscribeAll call has removed from the registry: after a listener
\* called unsubscribeAll() or unsubscribeAll(e) during emit(e, d), forEach
\* reaches no further listener of e.
C22_UnsubscribeAllDuringEmit ==
    [][Visit => ForEachNext(heap[Top.slot].listeners, Top.last).value \notin swept]_vars

\* C23: emit terminates under re-entrant subscription.  The entries an emit
\* call has visited plus those its forEach has still to visit never exceed
\* the entries registered when the call started, so the call ends after at
\* most that many invocations, whatever the listeners subscribe meanwhile.
C23_EmitTerminates ==
    \A i \in 1..Len(stack) :
        Len(stack[i].visits)
            + Len(ForEachRest(heap[stack[i].slot].listeners, stack[i].last))
                <= Len(stack[i].snap)

\* C24: Append-after-snapshot.  Every entry an emit call visits was
\* registered when the call started: a listener subscribed during the call
\* is not visited by it.
C24_AppendAfterSnapshot ==
    \A i \in 1..Len(stack) :
        \A k \in 1..Len(stack[i].visits) :
            \E n \in 1..Len(stack[i].snap) : stack[i].snap[n] = stack[i].visits[k].sid

\* C25: unsubscribeAll with the empty string as event name.
\* unsubscribeAll("") removes the listeners registered under "" and leaves
\* the listeners of every other event name registered.
C25_UnsubscribeAllEmptyName ==
    [][UnsubscribeAllCall(<<"">>) =>
          /\ Len(Registered(eventsStore', heap', "")) = 0
          /\ \A e \in Events \ {""} :
                 Registered(eventsStore', heap', e) = Registered(eventsStore, heap, e)]_vars

\* The number of listener entries in the registry.
EntryCount(store, hp) ==
    Cardinality({sid \in 1..Len(subs) : IsRegistered(store, hp, sid)})

\* C26: Handle result equals the deletion result.  A call of a handle, made
\* by user code or by an adapter, returns true exactly when it removed a
\* listener entry from the registry (one entry), and changes nothing
\* otherwise; it returns false when the registry is absent or the event has
\* no slot.
C26_HandleResult ==
    [][/\ \A sid \in Sids :
              UnsubscribeCall(sid) =>
                  LET ret == handleLog'[sid][Len(handleLog'[sid])].ret
                  IN /\ ret => EntryCount(eventsStore', heap') = EntryCount(eventsStore, heap) - 1
                     /\ ~ret => UNCHANGED <<eventsStore, heap>>
                     /\ (~eventsStore.defined
                           \/ ~EventsMapHas(eventsStore.map, subs[sid].eventName)) => ~ret
       /\ \A sid \in Sids :
              (Visit /\ Len(handleLog'[sid]) > Len(handleLog[sid])) =>
                  LET ret == handleLog'[sid][Len(handleLog'[sid])].ret
                  IN /\ ret => EntryCount(eventsStore', heap') = EntryCount(eventsStore, heap) - 1
                     /\ ~ret => \A e \in Events :
                                    Registered(eventsStore', heap', e) = Registered(eventsStore, heap, e)
                     /\ (~eventsStore.defined
                           \/ ~EventsMapHas(eventsStore.map, subs[sid].eventName)) => ~ret]_vars

\* A handle was called twice while another listener kept the registry
\* present: the first call returned true, the second false.
C26_Witness ==
    /\ lastCall.op = "unsubscribe"
    /\ Len(handleLog[lastCall.num]) = 2
    /\ handleLog[lastCall.num][1].ret
    /\ ~handleLog[lastCall.num][2].ret
    /\ eventsStore.defined

\* C27: once removes before it forwards.  Whenever a listener registered via
\* once has been invoked, its adapter has called the handle before, and from
\* then on the subscription is not in the registry, also after the listener
\* threw; an emit issued from inside the listener does not visit its entry.
C27_OnceRemovesFirst ==
    \A sid \in 1..Len(subs) :
        subs[sid].kind = "once" =>
            /\ invoked[sid] <= Len(handleLog[sid])
            /\ Len(handleLog[sid]) > 0 => ~IsRegistered(eventsStore, heap, sid)
            /\ \A i \in 1..Len(stack), j \in 1..Len(stack) :
                   (i < j /\ stack[i].pc = "body" /\ stack[i].sid = sid) =>
                       \A k \in 1..Len(stack[j].visits) : stack[j].visits[k].sid # sid

\* L, registered via once, emitted its event again while it was invoked; the
\* nested emit invoked the other listener of the event, not L.
C27_Witness ==
    /\ Len(stack) = 2
    /\ stack[1].pc = "body"
    /\ subs[stack[1].sid].kind = "once"
    /\ stack[2].eventName = stack[1].eventName
    /\ Len(stack[2].visits) > 0
    /\ invoked[stack[1].sid] = 1

\* C28: once and awaited restore an idle registry.  When a once or awaited
\* subscription is the only subscription ever made on the emitter and an
\* emit of its event name has been called and is over, the registry is
\* absent and no slot is left, as before the subscription; unless an
\* unsubscribeAll removed it, the subscription was removed by one successful
\* call of its own handle.
C28_CombinatorsRestoreIdle ==
    (/\ Len(subs) = 1
     /\ subs[1].kind \in {"once", "awaited"}
     /\ seen[1] # 0
     /\ Len(stack) = 0) =>
        /\ eventsStore = Undefined
        /\ heap = [s \in Sids |-> NewListenersMapEntry]
        /\ 1 \notin swept => (Len(handleLog[1]) = 1 /\ handleLog[1][1].ret)

\* The only subscription, made through once, was consumed by an emit that
\* has returned; a second emit of the same event name was made afterwards.
C28_Witness ==
    /\ Len(subs) = 1
    /\ subs[1].kind = "once"
    /\ invoked[1] = 1
    /\ Len(stack) = 0
    /\ ops = 3
    /\ lastCall.op = "emit"
    /\ lastCall.arg[1] = subs[1].eventName

\* C29: A false predicate gates only its own listener.  In an emit(e, d) that
\* runs to its end, with no throw and no registry change made from a
\* listener, and in which some predicate returned false: every entry
\* registered for e has been visited, in order, the predicate of each entry
\* that has one was called once with d, and the listener of each entry whose
\* predicate did not return false was invoked.
C29_FalsePredicateGatesOwn ==
    \A i \in 1..Len(stack) :
        LET f == stack[i]
        IN (Finished(i) /\ ~f.mutated /\ \E k \in 1..Len(f.visits) : ~f.visits[k].called) =>
               /\ SidsOf(f.visits) = f.snap
               /\ \A k \in 1..Len(f.visits) :
                      LET p == subs[f.visits[k].sid].predicate
                      IN /\ f.visits[k].pred =
                                (IF p = 0 THEN <<>> ELSE <<PredicateResult(p, f.data)>>)
                         /\ f.visits[k].called = (p = 0 \/ PredicateResult(p, f.data))

\* The predicate of the first of three listeners returned false; the emit
\* went on: the predicate of the second returned false as well, the third
\* listener was invoked.
C29_Witness ==
    /\ Len(stack) > 0
    /\ Finished(Len(stack))
    /\ ~Top.mutated
    /\ Len(Top.visits) = 3
    /\ Top.visits[1].pred = <<FALSE>>
    /\ Top.visits[2].pred = <<FALSE>>
    /\ Top.visits[3].called
    /\ invoked[Top.visits[1].sid] = 0
    /\ invoked[Top.visits[3].sid] = 1

\* C30: Duplicate subscriptions are independent.  Every subscribe call adds
\* one entry to the event's listeners, also when the same listener function
\* is registered already; an emit that runs to its end undisturbed invokes a
\* listener function once per entry registered for it without predicate; and
\* a handle call that returns true removes exactly one entry.
C30_DuplicatesIndependent ==
    [][/\ \A e \in Events :
              (Len(subs') = Len(subs) + 1 /\ subs'[Len(subs')].eventName = e) =>
                  Len(Registered(eventsStore', heap', e)) = Len(Registered(eventsStore, heap, e)) + 1
       /\ (EmitReturn /\ ~Top.mutated) =>
              \A l \in Listeners :
                  Len(SelectSeq(Invocations(Top),
                         LAMBDA v : subs[v.sid].listener = l /\ subs[v.sid].predicate = 0))
                      = Len(SelectSeq(Top.snap,
                         LAMBDA x : subs[x].listener = l /\ subs[x].predicate = 0))
       /\ \A sid \in Sids :
              (UnsubscribeCall(sid) /\ handleLog'[sid][Len(handleLog'[sid])].ret) =>
                  Len(Registered(eventsStore', heap', subs[sid].eventName))
                      = Len(Registered(eventsStore, heap, subs[sid].eventName)) - 1]_vars

\* The same listener function was subscribed twice to one event name, one of
\* the two handles was called, and the next emit invoked it once.
C30_Witness ==
    /\ Len(stack) > 0
    /\ Finished(Len(stack))
    /\ ~Top.mutated
    /\ Len(subs) = 2
    /\ subs[1].eventName = subs[2].eventName
    /\ subs[1].listener = subs[2].listener
    /\ subs[1].kind = "plain"
    /\ subs[2].kind = "plain"
    /\ subs[1].predicate = 0
    /\ subs[2].predicate = 0
    /\ Len(handleLog[1]) + Len(handleLog[2]) = 1
    /\ Len(Invocations(Top)) = 1
    /\ Len(Top.snap) = 1

\* C31: two emitters from two createEventEmitter calls are independent: a
\* call on the second emitter (subscribe, a handle, unsubscribeAll, emit)
\* leaves the first emitter's eventsStore and slots as they are and runs none
\* of its listeners or adapters (no invocation, no handle call, no promise
\* settled, no emit frame touched); a step of the first emitter (a call on it,
\* or its emit going on) leaves the second emitter's eventsStore and slots as
\* they are and invokes none of its listeners.  Event names are shared.
C31_EmittersIndependent ==
    [][ /\ peer'.calls # peer.calls =>
              UNCHANGED <<eventsStore, heap, stack, handleLog, invoked, promise>>
        /\ peer'.calls = peer.calls =>
              /\ peer'.eventsStore = peer.eventsStore
              /\ peer'.heap = peer.heap
              /\ peer'.invoked = peer.invoked ]_vars

\* Both emitters have a listener for the same event name, each emitter has
\* emitted that event, and each listener ran once.
C31_Witness ==
    /\ Len(subs) = 1
    /\ Len(peer.subs) = 1
    /\ subs[1].eventName = peer.subs[1].eventName
    /\ invoked[1] = 1
    /\ peer.invoked[1] = 1
    /\ IsRegistered(eventsStore, heap, 1)
    /\ peer.eventsStore.defined

\* The entry of subscribe call sid can no longer be reached: it is neither
\* in the store nor in a slot an emit in progress is iterating.
Detached(sid) ==
    /\ ~IsRegistered(eventsStore, heap, sid)
    /\ \A i \in 1..Len(stack) :
           \A k \in 1..Len(heap[stack[i].slot].listeners) :
               heap[stack[i].slot].listeners[k].value # sid

\* C32: unsubscribeAll cancels pending once / awaited subscriptions.  When
\* unsubscribeAll() or unsubscribeAll(e) is called outside any emission and
\* before the first emit of e called after the registration, a once or
\* awaited subscription for e is detached by the call; and a detached once
\* or awaited subscription stays detached, so that no later step (no later
\* emit of e) invokes its listener or settles its promise.
C32_UnsubscribeAllCancelsPending ==
    [][ \A sid \in 1..Len(subs) :
            subs[sid].kind \in {"once", "awaited"} =>
                /\ \A arg \in {<<>>, <<subs[sid].eventName>>} :
                       (Len(stack) = 0 /\ seen[sid] = 0 /\ UnsubscribeAllCall(arg)) =>
                           Detached(sid)'
                /\ Detached(sid) =>
                       /\ Detached(sid)'
                       /\ invoked'[sid] = invoked[sid]
                       /\ promise'[sid] = promise[sid] ]_vars

\* once(e, L) and awaited(e), then unsubscribeAll at top level, then emit(e, d)
\* has been called: L has not run and the promise is pending.
C32_Witness ==
    /\ Len(subs) = 2
    /\ subs[1].kind = "once"
    /\ subs[2].kind = "awaited"
    /\ subs[1].eventName = subs[2].eventName
    /\ swept = {1, 2}
    /\ lastCall.op = "emit"
    /\ lastCall.arg = <<subs[1].eventName>>
    /\ seen[1] # 0
    /\ seen[2] # 0
    /\ Len(stack) = 0
    /\ invoked[1] = 0
    /\ promise[2] = 0

\* C33: the emitter is reusable after teardown.  A subscribe(e, L) made when
\* earlier subscriptions exist and the store has been discarded (by the last
\* handle call or by unsubscribeAll) re-creates the store, which then holds
\* the new entry under e and nothing else.  An emit iterating a slot invokes
\* only listeners subscribed since that slot was created, so none of those
\* removed before; and an emit(e, d) that starts while L (subscribed without
\* predicate) is still registered first in the slot it created visits L
\* first, with (e, d), and has invoked it exactly once when it has run to its
\* end with no registry change made from a listener.
C33_ReusableAfterTeardown ==
    [][ /\ (~eventsStore.defined /\ Len(subs) > 0 /\ Len(subs') = Len(subs) + 1) =>
               /\ eventsStore'.defined
               /\ \A x \in Events :
                      Registered(eventsStore', heap', x) =
                          IF x = subs'[Len(subs')].eventName THEN <<Len(subs')>> ELSE <<>>
        /\ \A i \in 1..Len(stack') :
               LET f == stack'[i]
                   L == f.slot
               IN /\ \A k \in 1..Len(f.visits) : f.visits[k].sid >= L
                  /\ (Len(f.snap) > 0 /\ f.snap[1] = L /\ subs'[L].predicate = 0) =>
                         /\ Len(f.visits) > 0 =>
                                /\ f.visits[1].sid = L
                                /\ f.visits[1].called
                                /\ f.visits[1].name = subs'[L].eventName
                                /\ f.visits[1].name = f.eventName
                                /\ f.visits[1].data = f.data
                         /\ (Finished(i)' /\ ~f.mutated) =>
                                Cardinality({k \in 1..Len(f.visits) : f.visits[k].sid = L}) = 1 ]_vars

\* subscribe(e, A), its handle called (the store is discarded), subscribe(e, L),
\* and an emit(e, d) has run to its end: it invoked L once and A never ran.
C33_Witness ==
    /\ Len(subs) = 2
    /\ subs[1].eventName = subs[2].eventName
    /\ subs[1].kind = "plain"
    /\ subs[2].kind = "plain"
    /\ Len(handleLog[1]) = 1
    /\ handleLog[1][1].ret
    /\ Len(stack) = 1
    /\ Finished(1)
    /\ stack[1].slot = 2
    /\ SidsOf(stack[1].visits) = <<2>>
    /\ invoked[1] = 0
    /\ invoked[2] = 1

====
